---- MODULE Spec2Model ----
(***************************************************************************)
(* Model of bin/experiments.py: the clustering-efficiency metric           *)
(* (cluster_efficiency), the two sweep drivers that call it, and the       *)
(* downsample-and-visualize pipeline (experiment_srs).                     *)
(*                                                                         *)
(* Efficiencies are Python floats (IEEE-754 binary64).  They are modelled  *)
(* bit-exactly: a float is a record [m, e] of value m * 2^e whose          *)
(* significand m has exactly 53 bits, kept as a little-endian sequence of  *)
(* base-2^15 limbs because the model checker's integers are 32 bits wide.  *)
(* Every arithmetic operation computes the exact result and rounds it to   *)
(* nearest, ties to even, as the hardware does.  Only non-negative finite  *)
(* values occur.                                                           *)
(***************************************************************************)
EXTENDS Integers, Sequences, FiniteSets

\* ------------------------------------------------------------------------
\* Bounds of the model.
\* ------------------------------------------------------------------------

\* Longest label vector handed to cluster_efficiency.
MaxLen == 5

\* The label values drawn.
Labels == {0, 1, 2}

\* The numbers of rows of X_dimred the sweep drivers are run on.
RowCounts == {1, 2}

\* The labels a clustering run of the sweep drivers assigns.
RunLabels == {0, 1}

\* ------------------------------------------------------------------------
\* Natural numbers of arbitrary size: little-endian limbs, no leading zero
\* limb, zero is the empty sequence.
\* ------------------------------------------------------------------------

LimbBits == 15

Pow2(k) == 2 ^ k

LimbBase == Pow2(LimbBits)

RECURSIVE BigStrip(_)
BigStrip(M) ==
    IF M = <<>> THEN <<>>
    ELSE IF M[Len(M)] = 0 THEN BigStrip(SubSeq(M, 1, Len(M) - 1))
    ELSE M

BigFromNat(n) == IF n = 0 THEN <<>> ELSE <<n>>

RECURSIVE BigMulCarry(_, _, _)
BigMulCarry(M, x, c) ==
    IF M = <<>> THEN BigFromNat(c)
    ELSE LET t == Head(M) * x + c
         IN  <<t % LimbBase>> \o BigMulCarry(Tail(M), x, t \div LimbBase)

\* M * x for a small x (x < LimbBase).
BigMulSmall(M, x) == BigStrip(BigMulCarry(M, x, 0))

RECURSIVE BigAddCarry(_, _, _)
BigAddCarry(A, B, c) ==
    IF A = <<>> /\ B = <<>> THEN BigFromNat(c)
    ELSE LET a == IF A = <<>> THEN 0 ELSE Head(A)
             b == IF B = <<>> THEN 0 ELSE Head(B)
             t == a + b + c
         IN  <<t % LimbBase>>
             \o BigAddCarry(IF A = <<>> THEN <<>> ELSE Tail(A),
                            IF B = <<>> THEN <<>> ELSE Tail(B),
                            t \div LimbBase)

BigAdd(A, B) == BigAddCarry(A, B, 0)

\* Long division of M by a small d (0 < d <= LimbBase): quotient limbs
\* (unstripped) and remainder.
RECURSIVE BigDivRem(_, _)
BigDivRem(M, d) ==
    IF M = <<>> THEN [q |-> <<>>, r |-> 0]
    ELSE LET hi == BigDivRem(Tail(M), d)
             t  == hi.r * LimbBase + Head(M)
         IN  [q |-> <<t \div d>> \o hi.q, r |-> t % d]

BigStripQuotient(qr) == [q |-> BigStrip(qr.q), r |-> qr.r]

BigDivSmall(M, d) == BigStripQuotient(BigDivRem(M, d))

RECURSIVE NatBitLen(_)
NatBitLen(n) == IF n = 0 THEN 0 ELSE 1 + NatBitLen(n \div 2)

BigBitLen(M) ==
    IF M = <<>> THEN 0 ELSE LimbBits * (Len(M) - 1) + NatBitLen(M[Len(M)])

\* M * 2^k.
RECURSIVE BigShiftLeft(_, _)
BigShiftLeft(M, k) ==
    IF k = 0 THEN M
    ELSE IF k >= LimbBits - 1
         THEN BigShiftLeft(BigMulSmall(M, Pow2(LimbBits - 1)), k - (LimbBits - 1))
         ELSE BigMulSmall(M, Pow2(k))

BigIsOdd(M) == M # <<>> /\ Head(M) % 2 = 1

\* A <= B, both stripped.
RECURSIVE BigLeq(_, _)
BigLeq(A, B) ==
    IF Len(A) # Len(B) THEN Len(A) < Len(B)
    ELSE IF A = <<>> THEN TRUE
    ELSE IF A[Len(A)] # B[Len(B)] THEN A[Len(A)] < B[Len(B)]
    ELSE BigLeq(SubSeq(A, 1, Len(A) - 1), SubSeq(B, 1, Len(B) - 1))

\* ------------------------------------------------------------------------
\* IEEE-754 binary64, non-negative finite values.
\* ------------------------------------------------------------------------

\* Bits of a binary64 significand.
MantBits == 53

FloatZero == [m |-> <<>>, e |-> 0]

\* A significand q of MantBits bits, or of one bit more after a carry out
\* of the rounding, at exponent e.
FloatPack(q, e) ==
    IF BigBitLen(q) > MantBits
    THEN [m |-> BigDivSmall(q, 2).q, e |-> e + 1]
    ELSE [m |-> q, e |-> e]

\* The last r bits cut off: d holds the bits kept and the bits cut.  Round
\* to nearest, ties to even.
FloatCut(d, r, e, sticky) ==
    FloatPack(IF \/ d.r > Pow2(r - 1)
                 \/ d.r = Pow2(r - 1) /\ (sticky \/ BigIsOdd(d.q))
              THEN BigAdd(d.q, <<1>>)
              ELSE d.q,
              e + r)

\* The float nearest to (M + t) * 2^e, where 0 <= t < 1, sticky says
\* whether t > 0 and L is the bit length of M (with t > 0 only for
\* L > MantBits).
RECURSIVE FloatRoundLen(_, _, _, _)
FloatRoundLen(M, e, sticky, L) ==
    IF L = 0 THEN FloatZero
    ELSE IF L <= MantBits
         THEN [m |-> BigShiftLeft(M, MantBits - L), e |-> e - (MantBits - L)]
    ELSE IF L - MantBits > LimbBits - 1
         THEN FloatRoundLen(BigDivSmall(M, Pow2(LimbBits - 1)).q,
                            e + (LimbBits - 1),
                            sticky \/ BigDivSmall(M, Pow2(LimbBits - 1)).r # 0,
                            L - (LimbBits - 1))
    ELSE FloatCut(BigDivSmall(M, Pow2(L - MantBits)), L - MantBits, e, sticky)

FloatRound(M, e, sticky) == FloatRoundLen(M, e, sticky, BigBitLen(M))

\* float(n) for a small natural n.
FloatFromNat(n) == FloatRound(BigFromNat(n), 0, FALSE)

FloatOne == FloatFromNat(1)

\* a + b
FloatAdd(a, b) ==
    IF a = FloatZero THEN b
    ELSE IF b = FloatZero THEN a
    ELSE LET e == IF a.e < b.e THEN a.e ELSE b.e
         IN  FloatRound(BigAdd(BigShiftLeft(a.m, a.e - e),
                               BigShiftLeft(b.m, b.e - e)), e, FALSE)

\* float(n) * a for a small natural n.
FloatMulNat(n, a) ==
    IF n = 0 \/ a = FloatZero THEN FloatZero
    ELSE FloatRound(BigMulSmall(a.m, n), a.e, FALSE)

\* The float nearest to a quotient with remainder, at exponent e.
FloatQuotient(qr, e) == FloatRound(qr.q, e, qr.r # 0)

\* a / float(d) for a natural d, 0 < d < 2^12: the quotient is computed to
\* at least two bits more than the significand holds, the remainder giving
\* the sticky bit.
FloatDivNat(a, d) ==
    IF a = FloatZero THEN FloatZero
    ELSE FloatQuotient(BigDivSmall(BigShiftLeft(a.m, LimbBits - 1), d),
                       a.e - (LimbBits - 1))

\* a <= 1.0
FloatLeqOne(a) == a = FloatZero \/ a.e < FloatOne.e \/ a = FloatOne

\* ------------------------------------------------------------------------
\* cluster_efficiency (experiments.py:12-53).  Sequences and table indices
\* are 1-based here where Python's are 0-based.
\* ------------------------------------------------------------------------

\* set(labels)
SetOf(labels) == {labels[p] : p \in 1..Len(labels)}

\* sorted(S) for a set of integers.
RECURSIVE sorted(_)
sorted(S) ==
    IF S = {} THEN <<>>
    ELSE LET lo == CHOOSE x \in S : \A y \in S : x <= y
         IN  <<lo>> \o sorted(S \ {lo})

\* { v: i for i, v in enumerate(seq) }
IndexOf(seq) == [v \in SetOf(seq) |-> CHOOSE i \in 1..Len(seq) : seq[i] = v]

\* sum of a sequence of naturals
RECURSIVE SumSeq(_)
SumSeq(s) == IF s = <<>> THEN 0 ELSE Head(s) + SumSeq(Tail(s))

\* The loop of lines 28-31 over the first n pairs of zip(cluster_labels,
\* auto_labels), starting from np.zeros((rows, cols)).
RECURSIVE CountPairs(_, _, _, _, _, _, _)
CountPairs(cl, al, cluster_idx, auto_idx, rows, cols, n) ==
    IF n = 0 THEN [i \in 1..rows |-> [j \in 1..cols |-> 0]]
    ELSE LET t == CountPairs(cl, al, cluster_idx, auto_idx, rows, cols, n - 1)
             i == cluster_idx[cl[n]]
             j == auto_idx[al[n]]
         IN  [t EXCEPT ![i][j] = @ + 1]

\* Mutant: the assertion of line 13 dropped.
SameLengthUnchecked(cl, al) == TRUE

\* The assertion of line 13.
SameLength(cl, al) == Len(cl) = Len(al)

\* Mutant: the loop of lines 28-31 misses the last pair.
ZipLenShort(cl, al) == IF Len(cl) = 0 THEN 0 ELSE Len(cl) - 1

\* len(zip(cl, al)): zip stops at the shorter vector.
ZipLen(cl, al) == IF Len(cl) < Len(al) THEN Len(cl) ELSE Len(al)

\* Mutant: the first row's count in place of the column total.
ColSumFirstRow(table, j) == table[1][j]

\* sum(table[:, j])
ColSum(table, j) == SumSeq([i \in 1..Len(table) |-> table[i][j]])

\* sum(table[i, :])
RowSum(table, i) == SumSeq(table[i])

\* Mutant: the last product only, nothing accumulated.
DotLastOnly(ns, pcts, k) ==
    IF k = 0 THEN FloatZero ELSE FloatMulNat(ns[k], pcts[k])

\* Mutant: the first reference group left out of the sum.
RECURSIVE DotFromSecond(_, _, _)
DotFromSecond(ns, pcts, k) ==
    IF k <= 1 THEN FloatZero
    ELSE FloatAdd(DotFromSecond(ns, pcts, k - 1), FloatMulNat(ns[k], pcts[k]))

\* np.dot(n_cluster_in_auto, pct_cluster_in_auto): products accumulated
\* left to right.
RECURSIVE Dot(_, _, _)
Dot(ns, pcts, k) ==
    IF k = 0 THEN FloatZero
    ELSE FloatAdd(Dot(ns, pcts, k - 1), FloatMulNat(ns[k], pcts[k]))

\* One iteration of the loop of lines 35-51 for cluster index i: the
\* exception it raises, if any, and the efficiency it stores.
ClusterStep(table, cols, i) ==
    LET n_cluster_in_auto == [j \in 1..cols |-> table[i][j]]
        zero_auto == \E j \in 1..cols : ColSum(table, j) = 0
        pct_cluster_in_auto ==
            [j \in 1..cols |->
                FloatDivNat(FloatFromNat(table[i][j]), ColSum(table, j))]
        wsum == Dot(n_cluster_in_auto, pct_cluster_in_auto, cols)
        total == SumSeq(n_cluster_in_auto)
    IN  IF zero_auto THEN [raised |-> "ZeroDivisionError", eff |-> FloatZero]
        ELSE IF total # RowSum(table, i)
             THEN [raised |-> "AssertionError", eff |-> FloatZero]
        ELSE IF total = 0
             THEN [raised |-> "ZeroDivisionError", eff |-> FloatZero]
        ELSE [raised |-> "none", eff |-> FloatDivNat(wsum, total)]

\* The outcome of cluster_efficiency(cl, al): the exception raised ("none"
\* when it returns), whether the table was allocated and what it holds when
\* the function ends, and the map returned.
cluster_efficiency(cl, al) ==
    IF ~SameLength(cl, al)
    THEN [raised |-> "AssertionError", built |-> FALSE, table |-> <<>>,
          returned |-> FALSE, ret |-> <<>>]
    ELSE LET clusters    == sorted(SetOf(cl))
             autos       == sorted(SetOf(al))
             cluster_idx == IndexOf(clusters)
             auto_idx    == IndexOf(autos)
             table       == CountPairs(cl, al, cluster_idx, auto_idx,
                                       Len(clusters), Len(autos),
                                       ZipLen(cl, al))
             step        == [i \in 1..Len(clusters) |->
                                ClusterStep(table, Len(autos), i)]
             failed      == {i \in 1..Len(clusters) : step[i].raised # "none"}
         IN  IF failed # {}
             THEN LET first == CHOOSE i \in failed : \A k \in failed : i <= k
                  IN  [raised |-> step[first].raised, built |-> TRUE,
                       table |-> table, returned |-> FALSE, ret |-> <<>>]
             ELSE [raised |-> "none", built |-> TRUE, table |-> table,
                   returned |-> TRUE,
                   ret |-> [c \in SetOf(cl) |-> step[cluster_idx[c]].eff]]

\* ------------------------------------------------------------------------
\* State.
\* ------------------------------------------------------------------------

VARIABLES
    pc,              \* where the running function is, or how it ended
    error,           \* the exception that ended it, "none" otherwise
    cluster_labels,  \* cluster_efficiency: first argument; the sweep
                     \* drivers: the caller's label vector
    auto_labels,     \* cluster_efficiency: second argument
    outcome,         \* what the call of cluster_efficiency produced
    n_rows,          \* sweep drivers: X_dimred.shape[0]
    it,              \* sweep drivers: index of the next parameter
    km_labels,       \* km.labels_ of the last k-means fit
    louvain_labels,  \* louvain_labels of the last Louvain run
    k_c_e,           \* experiment_efficiency_kmeans: k -> efficiency map
    r_c_e,           \* experiment_efficiency_louvain: resolution -> map
    args,            \* experiment_srs: the arguments and the label file
                     \* as the call finds it
    label_file,      \* data/cell_labels/<name>.txt: whether it exists and
                     \* the distinct tokens it holds
    km_fits,         \* experiment_srs: calls of km.fit
    label_writes,    \* experiment_srs: np.savetxt calls on the label file
    labels_src,      \* where the local cell_labels came from
    cell_types,      \* experiment_srs: the category names
    embedding_saved, \* data/embedding_<name>.txt has been written
    calls,           \* the calls of srs, visualize, report_cluster_counts
    Ni               \* index in Ns of the next target size

effVars == <<cluster_labels, auto_labels, outcome>>

sweepVars == <<n_rows, it, km_labels, louvain_labels, k_c_e, r_c_e>>

srsVars == <<args, label_file, km_fits, label_writes, labels_src,
             cell_types, embedding_saved, calls, Ni>>

vars == <<pc, error, effVars, sweepVars, srsVars>>

\* The sweep drivers are not running.
SweepIdle ==
    /\ n_rows = 0
    /\ it = 0
    /\ km_labels = <<>>
    /\ louvain_labels = <<>>
    /\ k_c_e = <<>>
    /\ r_c_e = <<>>

\* experiment_srs is not running.
SrsIdle ==
    /\ args = <<>>
    /\ label_file = [exists |-> FALSE, values |-> {}]
    /\ km_fits = 0
    /\ label_writes = 0
    /\ labels_src = "unset"
    /\ cell_types = <<>>
    /\ embedding_saved = FALSE
    /\ calls = <<>>
    /\ Ni = 0

NoOutcome ==
    [raised |-> "none", built |-> FALSE, table |-> <<>>,
     returned |-> FALSE, ret |-> <<>>]

\* ------------------------------------------------------------------------
\* Specification SpecEff: one call of cluster_efficiency on a pair of label
\* vectors.  The function reads the vectors only through the counts of the
\* pairs (cluster_labels[p], auto_labels[p]) and the two sets of values, so
\* one ordering of every multiset of pairs is drawn: positions sorted by
\* cluster label, then by reference label.  Vectors of different lengths are
\* drawn as well.
\* ------------------------------------------------------------------------

Vectors(n) == [1..n -> Labels]

InitEff ==
    /\ pc = "call"
    /\ error = "none"
    /\ SweepIdle
    /\ SrsIdle
    /\ outcome = NoOutcome
    /\ \E a \in 0..MaxLen, b \in 0..MaxLen :
         /\ cluster_labels \in Vectors(a)
         /\ \A p \in 1..(a - 1) : cluster_labels[p] <= cluster_labels[p + 1]
         /\ auto_labels \in Vectors(b)
         /\ \A p \in 1..(b - 1) :
              (p + 1 > a \/ cluster_labels[p] = cluster_labels[p + 1])
                 => auto_labels[p] <= auto_labels[p + 1]

\* The call: it returns the map or raises.
CallClusterEfficiency ==
    /\ pc = "call"
    /\ outcome' = cluster_efficiency(cluster_labels, auto_labels)
    /\ pc' = IF outcome'.raised = "none" THEN "returned" ELSE "raised"
    /\ error' = outcome'.raised
    /\ UNCHANGED <<cluster_labels, auto_labels, sweepVars, srsVars>>

NextEff == CallClusterEfficiency

SpecEff == InitEff /\ [][NextEff]_vars

\* ------------------------------------------------------------------------
\* Properties of cluster_efficiency, checked under SpecEff.
\* ------------------------------------------------------------------------

Called == pc # "call"

\* The positions holding label v.
Positions(labels, v) == {p \in 1..Len(labels) : labels[p] = v}

\* C1: for label vectors of equal length, cluster_efficiency returns a map
\* whose keys are exactly the distinct values of cluster_labels, and every
\* value lies in [0, 1].
C1_OneEntryPerClusterInUnitInterval ==
    (Called /\ Len(cluster_labels) = Len(auto_labels)) =>
        /\ outcome.returned
        /\ DOMAIN outcome.ret = SetOf(cluster_labels)
        /\ \A c \in DOMAIN outcome.ret : FloatLeqOne(outcome.ret[c])

\* A map with two clusters, one of efficiency strictly between 0 and 1.
C1_Witness ==
    /\ outcome.returned
    /\ Cardinality(DOMAIN outcome.ret) >= 2
    /\ \E c \in DOMAIN outcome.ret :
         outcome.ret[c] # FloatZero /\ outcome.ret[c] # FloatOne

\* C2: a cluster whose positions are exactly the positions of one reference
\* group has efficiency 1.0; identical vectors give 1.0 for every cluster.
C2_ExactGroupScoresOne ==
    outcome.returned =>
        /\ \A c \in DOMAIN outcome.ret :
             (\E a \in SetOf(auto_labels) :
                 Positions(cluster_labels, c) = Positions(auto_labels, a))
                => outcome.ret[c] = FloatOne
        /\ cluster_labels = auto_labels =>
             \A c \in DOMAIN outcome.ret : outcome.ret[c] = FloatOne

\* One cluster reproduces a reference group and scores 1.0 while another
\* cluster is split and scores less.
C2_Witness ==
    /\ outcome.returned
    /\ \E c \in DOMAIN outcome.ret :
         /\ \E a \in SetOf(auto_labels) :
              Positions(cluster_labels, c) = Positions(auto_labels, a)
         /\ Cardinality(Positions(cluster_labels, c)) >= 2
         /\ outcome.ret[c] = FloatOne
    /\ \E c \in DOMAIN outcome.ret : outcome.ret[c] # FloatOne

\* C6: with vectors of different lengths the call raises the assertion
\* error at once: no table is built and no map is returned.
C6_LengthMismatchRaises ==
    (Called /\ Len(cluster_labels) # Len(auto_labels)) =>
        /\ pc = "raised"
        /\ outcome.raised = "AssertionError"
        /\ ~outcome.built
        /\ ~outcome.returned
        /\ outcome.ret = <<>>

\* The call efficiency([.,.,.], [.,.]) has raised.
C6_Witness ==
    /\ pc = "raised"
    /\ Len(cluster_labels) = 3
    /\ Len(auto_labels) = 2
    /\ outcome.raised = "AssertionError"

\* C10: for vectors of equal length (the empty ones included) nothing is
\* raised: every column total and every row total of the table is at least
\* 1, the entries sum to N, and for every cluster the sum of its counts
\* equals its row sum, so no division is by zero and the assertion of line
\* 48 holds.
C10_NoZeroDivisionNoAssertionFailure ==
    (Called /\ Len(cluster_labels) = Len(auto_labels)) =>
        LET t    == outcome.table
            rows == Len(t)
            cols == Cardinality(SetOf(auto_labels))
        IN  /\ outcome.raised = "none"
            /\ outcome.built
            /\ rows = Cardinality(SetOf(cluster_labels))
            /\ \A i \in 1..rows : Len(t[i]) = cols /\ RowSum(t, i) >= 1
            /\ \A j \in 1..cols : ColSum(t, j) >= 1
            /\ SumSeq([i \in 1..rows |-> RowSum(t, i)]) = Len(cluster_labels)
            /\ \A i \in 1..rows :
                 SumSeq([j \in 1..cols |-> t[i][j]]) = RowSum(t, i)
            /\ Len(cluster_labels) = 0 => outcome.ret = <<>>

\* A table of two clusters by two reference groups with a zero entry has
\* been evaluated without error.
C10_Witness ==
    /\ pc = "returned"
    /\ Len(outcome.table) = 2
    /\ Len(outcome.table[1]) = 2
    /\ \E i \in 1..2, j \in 1..2 : outcome.table[i][j] = 0

\* The bijective renamings of the labels.
Renamings == {f \in [Labels -> Labels] : \A x, y \in Labels : f[x] = f[y] => x = y}

Rename(labels, f) == [p \in 1..Len(labels) |-> f[labels[p]]]

\* |a - b| is at most ulps units in the last place of the one with the
\* smaller exponent.
FloatWithin(a, b, ulps) ==
    IF a = FloatZero \/ b = FloatZero THEN a = b
    ELSE LET e == IF a.e < b.e THEN a.e ELSE b.e
             A == BigShiftLeft(a.m, a.e - e)
             B == BigShiftLeft(b.m, b.e - e)
         IN  /\ BigLeq(A, BigAdd(B, <<ulps>>))
             /\ BigLeq(B, BigAdd(A, <<ulps>>))

\* Renaming the cluster labels by f renames the keys of the returned map and
\* keeps every value, bit for bit.
ClusterRenamingExact(f) ==
    LET r == cluster_efficiency(Rename(cluster_labels, f), auto_labels)
    IN  /\ r.returned
        /\ DOMAIN r.ret = {f[c] : c \in DOMAIN outcome.ret}
        /\ \A c \in DOMAIN outcome.ret : r.ret[f[c]] = outcome.ret[c]

\* C7 as stated: renaming the cluster labels renames the keys and keeps the
\* values, and renaming the reference labels leaves the returned map
\* unchanged.
C7_RelabelingLeavesMapUnchanged ==
    outcome.returned =>
        \A f \in Renamings :
            /\ ClusterRenamingExact(f)
            /\ cluster_efficiency(cluster_labels, Rename(auto_labels, f)).ret
                 = outcome.ret

\* C7 as amended: renaming the cluster labels renames the keys and keeps the
\* values exactly; renaming the reference labels keeps the key set, and
\* keeps every value up to the rounding of the float summation, whose order
\* follows the sorted reference labels: the two values differ by at most
\* 2 * |A| + 5 units in the last place, A being the set of reference labels.
C7_RelabelingUpToRounding ==
    outcome.returned =>
        \A f \in Renamings :
            /\ ClusterRenamingExact(f)
            /\ LET r == cluster_efficiency(cluster_labels,
                                           Rename(auto_labels, f))
               IN  /\ r.returned
                   /\ DOMAIN r.ret = DOMAIN outcome.ret
                   /\ \A c \in DOMAIN outcome.ret :
                        FloatWithin(r.ret[c], outcome.ret[c],
                                    2 * Cardinality(SetOf(auto_labels)) + 5)

\* A map has been returned for a cluster that meets three reference groups,
\* one of them of three points: the sum of line 47 then has three non-zero
\* terms, 1/3 among them, and its rounding depends on their order.
C7_Witness ==
    /\ outcome.returned
    /\ \E i \in 1..Len(outcome.table) :
         /\ Len(outcome.table[i]) = 3
         /\ \A j \in 1..3 : outcome.table[i][j] = 1
         /\ \E j \in 1..3 : ColSum(outcome.table, j) = 3

\* ------------------------------------------------------------------------
\* Specification SpecSweep: experiment_efficiency_kmeans and
\* experiment_efficiency_louvain.  The clustering collaborators are outside
\* the program: a fit either raises or yields any label per row of X_dimred.
\* Each loop iteration is one step.
\* ------------------------------------------------------------------------

\* Line 60.
kmeans_ks == <<5, 10, 20, 30, 40, 50, 100>>

\* Line 97; the resolutions are written as in the source.
resolutions == <<"0.1", "0.5", "1", "1.5", "2", "5">>

\* d[key] = value
DictSet(d, key, value) ==
    [x \in DOMAIN d \cup {key} |-> IF x = key THEN value ELSE d[x]]

\* Mutant: the two label vectors exchanged.
SweepEfficiencySwapped(caller_labels, run_labels) ==
    cluster_efficiency(run_labels, caller_labels)

\* The evaluation of lines 71-73 and 110-112: the driver's cluster_labels
\* argument first, the labels of the clustering run second.
SweepEfficiency(caller_labels, run_labels) ==
    cluster_efficiency(caller_labels, run_labels)

InitSweep ==
    /\ pc \in {"kmeans_loop", "louvain_neighbors"}
    /\ error = "none"
    /\ SrsIdle
    /\ auto_labels = <<>>
    /\ outcome = NoOutcome
    /\ n_rows \in RowCounts
    /\ \E a \in RowCounts : cluster_labels \in Vectors(a)
    /\ it = 1
    /\ km_labels = <<>>
    /\ louvain_labels = <<>>
    /\ k_c_e = <<>>
    /\ r_c_e = <<>>

\* Lines 62-73: one iteration of the k-means sweep.
KMeansIteration ==
    /\ pc = "kmeans_loop"
    /\ it <= Len(kmeans_ks)
    /\ UNCHANGED <<effVars, srsVars, n_rows, louvain_labels, r_c_e>>
    /\ \/ /\ pc' = "raised"
          /\ error' = "CollaboratorError"
          /\ UNCHANGED <<it, km_labels, k_c_e>>
       \/ \E labels \in [1..n_rows -> RunLabels] :
            LET r == SweepEfficiency(cluster_labels, labels)
            IN  /\ km_labels' = labels
                /\ IF r.raised # "none"
                   THEN /\ pc' = "raised"
                        /\ error' = r.raised
                        /\ UNCHANGED <<it, k_c_e>>
                   ELSE /\ k_c_e' = DictSet(k_c_e, kmeans_ks[it], r.ret)
                        /\ it' = it + 1
                        /\ UNCHANGED <<pc, error>>

\* Lines 75-83: the report and the return of k_c_e.
KMeansReturn ==
    /\ pc = "kmeans_loop"
    /\ it > Len(kmeans_ks)
    /\ pc' = "kmeans_done"
    /\ UNCHANGED <<error, effVars, sweepVars, srsVars>>

\* Lines 93-94: the neighbour graph, built once.
LouvainNeighbors ==
    /\ pc = "louvain_neighbors"
    /\ UNCHANGED <<effVars, sweepVars, srsVars>>
    /\ \/ pc' = "louvain_loop" /\ UNCHANGED error
       \/ pc' = "raised" /\ error' = "CollaboratorError"

\* Lines 99-112: one iteration of the Louvain sweep.
LouvainIteration ==
    /\ pc = "louvain_loop"
    /\ it <= Len(resolutions)
    /\ UNCHANGED <<effVars, srsVars, n_rows, km_labels, k_c_e>>
    /\ \/ /\ pc' = "raised"
          /\ error' = "CollaboratorError"
          /\ UNCHANGED <<it, louvain_labels, r_c_e>>
       \/ \E labels \in [1..n_rows -> RunLabels] :
            LET r == SweepEfficiency(cluster_labels, labels)
            IN  /\ louvain_labels' = labels
                /\ IF r.raised # "none"
                   THEN /\ pc' = "raised"
                        /\ error' = r.raised
                        /\ UNCHANGED <<it, r_c_e>>
                   ELSE /\ r_c_e' = DictSet(r_c_e, resolutions[it], r.ret)
                        /\ it' = it + 1
                        /\ UNCHANGED <<pc, error>>

\* Lines 114-122: the report and the return of r_c_e.
LouvainReturn ==
    /\ pc = "louvain_loop"
    /\ it > Len(resolutions)
    /\ pc' = "louvain_done"
    /\ UNCHANGED <<error, effVars, sweepVars, srsVars>>

NextSweep ==
    \/ KMeansIteration
    \/ KMeansReturn
    \/ LouvainNeighbors
    \/ LouvainIteration
    \/ LouvainReturn

SpecSweep == InitSweep /\ [][NextSweep]_vars

\* C3 as stated: when a sweep returns, the keys of its result are the swept
\* parameter values, and the efficiency map recorded for a parameter has
\* the distinct labels the clustering produced for it as its keys.  The
\* second part is stated for the parameter processed last, at every point
\* of the sweep.
C3_KeysAreProducedLabels ==
    /\ pc = "kmeans_done" => DOMAIN k_c_e = SetOf(kmeans_ks)
    /\ pc = "louvain_done" => DOMAIN r_c_e = SetOf(resolutions)
    /\ (pc \in {"kmeans_loop", "kmeans_done"} /\ it > 1) =>
          DOMAIN k_c_e[kmeans_ks[it - 1]] = SetOf(km_labels)
    /\ (pc \in {"louvain_loop", "louvain_done"} /\ it > 1) =>
          DOMAIN r_c_e[resolutions[it - 1]] = SetOf(louvain_labels)

\* C3 as amended: when a sweep returns, the keys of its result are the swept
\* parameter values, and every efficiency map recorded has the distinct
\* values of the caller's label vector as its keys: the caller's labels are
\* passed as cluster_labels and the labels of the clustering run as
\* auto_labels.
C3_KeysAreCallerLabels ==
    /\ pc = "kmeans_done" => DOMAIN k_c_e = SetOf(kmeans_ks)
    /\ pc = "louvain_done" => DOMAIN r_c_e = SetOf(resolutions)
    /\ \A k \in DOMAIN k_c_e : DOMAIN k_c_e[k] = SetOf(cluster_labels)
    /\ \A r \in DOMAIN r_c_e : DOMAIN r_c_e[r] = SetOf(cluster_labels)
    /\ (pc \in {"kmeans_loop", "kmeans_done"} /\ it > 1) =>
          k_c_e[kmeans_ks[it - 1]]
             = cluster_efficiency(cluster_labels, km_labels).ret
    /\ (pc \in {"louvain_loop", "louvain_done"} /\ it > 1) =>
          r_c_e[resolutions[it - 1]]
             = cluster_efficiency(cluster_labels, louvain_labels).ret

\* A k-means sweep has returned for a caller with two distinct labels, and
\* its last clustering run put both rows in one cluster.
C3_Witness ==
    /\ pc = "kmeans_done"
    /\ Cardinality(SetOf(cluster_labels)) = 2
    /\ Cardinality(SetOf(km_labels)) = 1
    /\ DOMAIN k_c_e = SetOf(kmeans_ks)

\* ------------------------------------------------------------------------
\* Specification SpecSrs: experiment_srs.  The three stages of the pipeline
\* (label acquisition, visualization of the original data, one pass of the
\* loop over the target sizes) are one step each.  KMeans, srs, visualize
\* and the file system are outside the program: each call either raises,
\* which ends the invocation, or succeeds.  A label vector is kept as the
\* set of its distinct values.
\* ------------------------------------------------------------------------

\* The values of X_dimred.shape[0] drawn.
PointCounts == {800, 1000, 5000, 15000, 20001, 60000, 120000}

\* Line 134: the default of n_downsample.
n_downsample == 100000

\* Line 136: the default of perplexity.
perplexity == 500

\* Line 189.
Ns == <<1000, 5000, 10000, 20000, 50000>>

Max(a, b) == IF a >= b THEN a ELSE b

Digits == <<"0", "1", "2", "3", "4", "5", "6", "7", "8", "9">>

\* str(ct) for a label 0..9.
Str(ct) == Digits[ct + 1]

\* The token np.savetxt writes for a label 0..9 (format '%.18e').
SaveTxtToken(v) == Digits[v + 1] \o ".000000000000000000e+00"

\* Line 156: [ str(ct) for ct in sorted(set(cell_labels)) ]
CallerCellTypes(values) ==
    LET ord == sorted(values) IN [i \in 1..Len(ord) |-> Str(ord[i])]

\* Lines 152-154: le.classes_, the sorted distinct tokens of the file.  The
\* tokens of the labels 0..9 sort as the labels do.
FileCellTypes(values) ==
    LET ord == sorted(values) IN [i \in 1..Len(ord) |-> SaveTxtToken(ord[i])]

\* Mutant: the test for the label file dropped.
RunsKMeansFlagOnly(kmeans, file_exists) == kmeans

\* Mutant: the kmeans flag ignored.
RunsKMeansFileOnly(kmeans, file_exists) == ~file_exists

\* Lines 140-141: whether k-means is run and the label file written.
RunsKMeans(kmeans, file_exists) == kmeans \/ ~file_exists

\* Mutant: a target size equal to the point count not skipped.
SkippedStrict(N, n_points) == N > n_points

\* Line 192: whether target size N is skipped.
Skipped(N, n_points) == N >= n_points

\* Line 211: perplexity=max(N/200, 50).  Every N of Ns is a multiple of
\* 200, so N/200 is the same number under true and under floor division.
SrsPerplexity(N) == Max(N \div 200, 50)

\* Mutant: no lower limit of 1.
SrsSizeNoFloor(N) == 30000 \div N

\* Line 212: size=max(int(30000/N), 1); int() truncates.
SrsSize(N) == Max(30000 \div N, 1)

\* Lines 201-206: the expression overlay is built when all three gene
\* arguments are given.
HasExpr == args.gene_names /\ args.gene_expr /\ args.genes

\* A record of the calls log.  size = 0: the call passes no size.
Call(fn, suffix, n, perp, size) ==
    [fn |-> fn, suffix |-> suffix, n |-> n, perplexity |-> perp,
     size |-> size, expr |-> HasExpr]

InitSrs ==
    /\ pc = "srs_labels"
    /\ error = "none"
    /\ cluster_labels = <<>>
    /\ auto_labels = <<>>
    /\ outcome = NoOutcome
    /\ SweepIdle
    /\ label_file \in {[exists |-> FALSE, values |-> {}],
                       [exists |-> TRUE, values |-> {0, 1}]}
    /\ args \in [n_points : PointCounts,
                 cell_labels : {[given |-> FALSE, values |-> {}],
                                [given |-> TRUE, values |-> {0, 2}]},
                 kmeans : BOOLEAN,
                 visualize_orig : BOOLEAN,
                 downsample : BOOLEAN,
                 gene_names : BOOLEAN,
                 gene_expr : BOOLEAN,
                 genes : BOOLEAN,
                 file_existed : {label_file.exists}]
    /\ km_fits = 0
    /\ label_writes = 0
    /\ labels_src = "unset"
    /\ cell_types = <<>>
    /\ embedding_saved = FALSE
    /\ calls = <<>>
    /\ Ni = 1

\* Lines 147-156, reading the label file f.
AcquireLabels(f) ==
    IF ~args.cell_labels.given
    THEN IF ~f.exists
         THEN /\ pc' = "raised"
              /\ error' = "FileNotFoundError"
              /\ UNCHANGED <<labels_src, cell_types>>
         ELSE /\ labels_src' = "file"
              /\ cell_types' = FileCellTypes(f.values)
              /\ pc' = "srs_visualize_orig"
              /\ UNCHANGED error
    ELSE /\ labels_src' = "caller"
         /\ cell_types' = CallerCellTypes(args.cell_labels.values)
         /\ pc' = "srs_visualize_orig"
         /\ UNCHANGED error

\* Lines 140-156: label acquisition.
LabelAcquisition ==
    /\ pc = "srs_labels"
    /\ UNCHANGED <<effVars, sweepVars, args, embedding_saved, calls, Ni>>
    /\ IF RunsKMeans(args.kmeans, label_file.exists)
       THEN /\ km_fits' = km_fits + 1
            /\ \/ \* km.fit raises
                  /\ pc' = "raised"
                  /\ error' = "CollaboratorError"
                  /\ UNCHANGED <<label_file, label_writes, labels_src,
                                 cell_types>>
               \/ \* np.savetxt raises
                  /\ pc' = "raised"
                  /\ error' = "WriteError"
                  /\ label_writes' = label_writes + 1
                  /\ UNCHANGED <<label_file, labels_src, cell_types>>
               \/ \E found \in {{0, 1}, {0, 1, 2}} :
                    /\ label_file' = [exists |-> TRUE, values |-> found]
                    /\ label_writes' = label_writes + 1
                    /\ AcquireLabels(label_file')
       ELSE /\ UNCHANGED <<km_fits, label_writes, label_file>>
            /\ AcquireLabels(label_file)

\* Lines 160-185: visualization of the original data.
VisualizeOriginal ==
    /\ pc = "srs_visualize_orig"
    /\ UNCHANGED <<effVars, sweepVars, args, label_file, km_fits,
                   label_writes, labels_src, cell_types, Ni>>
    /\ IF ~args.visualize_orig
       THEN /\ pc' = "srs_loop"
            /\ UNCHANGED <<error, embedding_saved, calls>>
       ELSE LET n_idx == IF args.downsample /\ args.n_points > n_downsample
                         THEN n_downsample
                         ELSE args.n_points
                call  == Call("visualize", "_orig", n_idx, perplexity, 0)
            IN  \/ \* visualize raises
                   /\ pc' = "raised"
                   /\ error' = "CollaboratorError"
                   /\ UNCHANGED <<embedding_saved, calls>>
                \/ \* np.savetxt raises
                   /\ pc' = "raised"
                   /\ error' = "WriteError"
                   /\ calls' = Append(calls, call)
                   /\ UNCHANGED embedding_saved
                \/ /\ calls' = Append(calls, call)
                   /\ embedding_saved' = TRUE
                   /\ pc' = "srs_loop"
                   /\ UNCHANGED error

\* Lines 191-214: one pass of the loop over Ns.
DownsampleStep ==
    /\ pc = "srs_loop"
    /\ Ni <= Len(Ns)
    /\ UNCHANGED <<effVars, sweepVars, args, label_file, km_fits,
                   label_writes, labels_src, cell_types, embedding_saved>>
    /\ LET N      == Ns[Ni]
           sample == Call("srs", "", N, 0, 0)
           show   == Call("visualize", "_srs", N, SrsPerplexity(N), SrsSize(N))
           report == Call("report_cluster_counts", "", N, 0, 0)
       IN  IF Skipped(N, args.n_points)
           THEN /\ Ni' = Ni + 1
                /\ UNCHANGED <<pc, error, calls>>
           ELSE \/ \* srs raises
                   /\ pc' = "raised"
                   /\ error' = "CollaboratorError"
                   /\ UNCHANGED <<calls, Ni>>
                \/ \* visualize raises
                   /\ pc' = "raised"
                   /\ error' = "CollaboratorError"
                   /\ calls' = Append(calls, sample)
                   /\ UNCHANGED Ni
                \/ /\ calls' = calls \o <<sample, show, report>>
                   /\ Ni' = Ni + 1
                   /\ UNCHANGED <<pc, error>>

\* The end of the loop: experiment_srs returns.
SrsReturn ==
    /\ pc = "srs_loop"
    /\ Ni > Len(Ns)
    /\ pc' = "srs_done"
    /\ UNCHANGED <<error, effVars, sweepVars, srsVars>>

NextSrs ==
    \/ LabelAcquisition
    \/ VisualizeOriginal
    \/ DownsampleStep
    \/ SrsReturn

SpecSrs == InitSrs /\ [][NextSrs]_vars

\* ------------------------------------------------------------------------
\* Properties of experiment_srs, checked under SpecSrs.
\* ------------------------------------------------------------------------

\* Label acquisition has run.
LabelsAcquired == pc # "srs_labels"

\* Label acquisition has run to its end without an exception.
LabelsReady == pc \in {"srs_visualize_orig", "srs_loop", "srs_done"}
               \/ (pc = "raised" /\ labels_src # "unset")

\* The calls made for target size N by the loop over Ns.
LoopCalls(N) ==
    {i \in 1..Len(calls) : calls[i].n = N /\ calls[i].suffix # "_orig"}

\* C4 as stated: with no labels from the caller, the kmeans flag off (the
\* labels are to be loaded from the label file) and no label file, the
\* invocation ends in the file-not-found error and no later step runs.
\* Runs in which a collaborator or the write of a file raised are left out.
C4_MissingLabelFileIsFatal ==
    (/\ LabelsAcquired
     /\ ~args.cell_labels.given
     /\ ~args.kmeans
     /\ ~args.file_existed
     /\ error \notin {"CollaboratorError", "WriteError"}) =>
        /\ pc = "raised"
        /\ error = "FileNotFoundError"
        /\ calls = <<>>

\* C4 as amended: a missing label file is not fatal.  When the file is
\* missing, k-means is run and the file is written before the labels are
\* loaded, whatever the kmeans flag, so the load never ends in the
\* file-not-found error; label acquisition then fails only if the k-means
\* fit or the write of the file raises, and otherwise the labels are loaded
\* from the file just written and the pipeline goes on.
C4_MissingLabelFileIsRecomputed ==
    /\ error # "FileNotFoundError"
    /\ (LabelsAcquired /\ ~args.file_existed) =>
          /\ km_fits = 1
          /\ \/ /\ pc = "raised"
                /\ labels_src = "unset"
                /\ error \in {"CollaboratorError", "WriteError"}
                /\ ~label_file.exists
             \/ /\ LabelsReady
                /\ label_writes = 1
                /\ label_file.exists
                /\ ~args.cell_labels.given =>
                      /\ labels_src = "file"
                      /\ cell_types = FileCellTypes(label_file.values)

\* The pipeline has returned for a call without labels, with the kmeans
\* flag off and no label file: the labels came from the file written by the
\* call.
C4_Witness ==
    /\ pc = "srs_done"
    /\ ~args.cell_labels.given
    /\ ~args.kmeans
    /\ ~args.file_existed
    /\ labels_src = "file"
    /\ label_file.exists

\* C5: a target size N >= the point count is skipped: neither srs nor
\* visualize nor report_cluster_counts is called for it, whatever the other
\* options.
C5_LargeTargetsSkipped ==
    \A k \in 1..Len(Ns) :
        Ns[k] >= args.n_points => LoopCalls(Ns[k]) = {}

\* The pipeline has returned on 5000 points: size 1000 was sampled and the
\* sizes from 5000 on were skipped.
C5_Witness ==
    /\ pc = "srs_done"
    /\ args.n_points = 5000
    /\ LoopCalls(1000) # {}
    /\ Len(calls) <= 4

\* C8 as stated: k-means is run and the label file written only when the
\* caller gave no labels; with labels from the caller they are used
\* directly, the category names are the sorted distinct label values, no
\* clustering is run and the label file is left as it was.
C8_KMeansOnlyWithoutCallerLabels ==
    (LabelsAcquired /\ args.cell_labels.given) =>
        /\ km_fits = 0
        /\ label_writes = 0
        /\ label_file = [exists |-> args.file_existed,
                         values |-> IF args.file_existed THEN {0, 1} ELSE {}]
        /\ LabelsReady =>
              /\ labels_src = "caller"
              /\ cell_types = <<"0", "2">>

\* C8 as amended: k-means is run, and the label file written, exactly when
\* the kmeans flag is set or the label file does not exist, whether or not
\* the caller gave labels.  Labels given by the caller are used directly,
\* with the sorted distinct label values as category names, and the label
\* file is then not read.
C8_KMeansByFlagOrMissingFile ==
    LabelsAcquired =>
        /\ km_fits = (IF args.kmeans \/ ~args.file_existed THEN 1 ELSE 0)
        /\ label_writes <= km_fits
        /\ LabelsReady => label_writes = km_fits
        /\ km_fits = 0 =>
              label_file = [exists |-> TRUE, values |-> {0, 1}]
        /\ (LabelsReady /\ args.cell_labels.given) =>
              /\ labels_src = "caller"
              /\ cell_types = <<"0", "2">>
        /\ (LabelsReady /\ ~args.cell_labels.given) => labels_src = "file"

\* Labels came from the caller, and k-means ran all the same and replaced
\* the label file.
C8_Witness ==
    /\ LabelsReady
    /\ args.cell_labels.given
    /\ args.kmeans
    /\ args.file_existed
    /\ km_fits = 1
    /\ label_file.values = {0, 1, 2}
    /\ labels_src = "caller"

\* C9 as stated: for every target size not skipped, visualize is called on
\* the sample with perplexity max(N/200, 50) and point size max(30000/N, 1),
\* the quotients being those of the rationals.
C9_PerplexityAndExactSize ==
    \A i \in 1..Len(calls) :
        (calls[i].fn = "visualize" /\ calls[i].suffix = "_srs") =>
            LET N == calls[i].n
            IN  /\ IF N >= 200 * 50 THEN calls[i].perplexity * 200 = N
                                    ELSE calls[i].perplexity = 50
                /\ IF 30000 >= N THEN calls[i].size * N = 30000
                                 ELSE calls[i].size = 1

\* C9 as amended: for every target size not skipped, visualize is called on
\* the sample with perplexity max(N/200, 50) and with point size
\* max(floor(30000/N), 1), the quotient truncated to an integer: over the
\* default sizes the perplexities are 50, 50, 50, 100, 250 and the point
\* sizes 30, 6, 3, 1, 1.
C9_PerplexityAndTruncatedSize ==
    /\ \A i \in 1..Len(calls) :
         (calls[i].fn = "visualize" /\ calls[i].suffix = "_srs") =>
             LET N == calls[i].n
             IN  /\ <<N, calls[i].perplexity, calls[i].size>> \in
                       {<<1000, 50, 30>>, <<5000, 50, 6>>, <<10000, 50, 3>>,
                        <<20000, 100, 1>>, <<50000, 250, 1>>}
                 /\ IF N >= 200 * 50 THEN calls[i].perplexity * 200 = N
                                     ELSE calls[i].perplexity = 50
                 /\ calls[i].size >= 1
                 /\ calls[i].size * N <= Max(30000, N)
                 /\ calls[i].size > 1 => (calls[i].size + 1) * N > 30000
    /\ \A k \in 1..Len(Ns) :
         (Ns[k] < args.n_points /\ (Ni > k \/ pc = "srs_done")) =>
             \E i \in LoopCalls(Ns[k]) : calls[i].fn = "visualize"

\* The sample of 20000 points has been visualized with point size 1.
C9_Witness ==
    \E i \in 1..Len(calls) :
        /\ calls[i].fn = "visualize"
        /\ calls[i].suffix = "_srs"
        /\ calls[i].n = 20000
        /\ calls[i].size = 1
        /\ calls[i].perplexity = 100

====
